---- MODULE Spec2Model ----
(***************************************************************************)
(* Model of the segmentation-guided blur pipeline of videoeffect.          *)
(*                                                                         *)
(* The repository holds two implementations of the per-frame orchestrator: *)
(*   impl = "closure" : src/webgpu-renderer.js (renderWithWebGPU and the   *)
(*                      render wrapper of createWebGPUBlurRenderer)        *)
(*   impl = "class"   : src/unnamed/part_000 (class WebGPURenderer)        *)
(* Both are modelled by the same actions; an action branches on impl where *)
(* the two sources differ.                                                 *)
(***************************************************************************)
EXTENDS Integers, Sequences, FiniteSets, TLC

\* ------------------------------------------------------------------ bounds
MaxScale == 3
MaxTimestamp == 2
MaxCalls == 2
MaxFaults == 1
MaxInFlight == 2
MaxTimerIds == 3

\* ------------------------------------------------------- program constants
DefaultWidth == 1280
DefaultHeight == 720
segmentationWidth == 256
segmentationHeight == 144
DrawVertexCount == 6
BlurKernel == 360

\* --------------------------------------------------------------- universes
Impls == {"closure", "class"}

\* display sizes a frame may report; <<0, 0>> is a frame reporting none
FrameSizes == {<<0, 0>>} \cup {<<640 * k, 360 * k>> : k \in 2..MaxScale}

\* mask sizes the CPU segmenter may report: the segmentation size, or a quarter
MaskSizes == {<<segmentationWidth, segmentationHeight>>,
              <<segmentationWidth \div 4, segmentationHeight \div 4>>}

\* incoming frames: every size, with sample timestamps and durations
Frames == {[size |-> s, timestamp |-> t, duration |-> MaxTimestamp + 1 - t] :
             s \in FrameSizes, t \in 1..MaxTimestamp}

NoFrame == [size |-> <<0, 0>>, timestamp |-> 0, duration |-> 0]
NoSize == <<0, 0>>
NoTexture == [key |-> <<"none", 0, 0>>, width |-> 0, height |-> 0, gen |-> 0]
Undefined == [key |-> <<"undefined", 0, 0>>, width |-> 0, height |-> 0, gen |-> 0]
NoPrev == [valid |-> FALSE, size |-> NoSize, result |-> "none", mask |-> NoSize,
           bindFailed |-> FALSE, forced |-> FALSE]

VARIABLES
  impl,          \* which of the two sources is running
  zeroCopy,      \* config flag
  directOutput,  \* config flag
  env,           \* what the platform offers: adapter, context, device
  segmenter,     \* capability flags of the attached segmenter
  pc,            \* position of the construction / of the render() call
  device,        \* "none" | "null" | "ok"
  canvas,        \* webgpuCanvas.width, webgpuCanvas.height
  configured,    \* canvas size at the last successful context.configure
  packShader,    \* downscale shader chosen at construction
  resourceCache, \* key -> cached GPU object
  destroyed,     \* GPU objects on which destroy() was called
  fragShader,    \* outputRendererFragmentShader and lastDim
  readbackState, \* mapping state of the cached readback buffer
  videoFrame,    \* the frame of the call in progress (or of the last call)
  dims0,         \* closure: width, height read from the canvas at call start
  useInterop,    \* class: result of this call's capability check
  sourceTexture, maskTexture, canvasTexture, outputTexture,   \* locals
  events,        \* what the call has done so far, in order
  allocs,        \* constructors invoked by the call
  forced,        \* an injected collaborator failure happened in the call
  bindFailed,    \* a bind-group construction failed in the call
  draws,         \* draw calls recorded by the call
  blurCalls,     \* blur() invocations of the call
  result,        \* outcome of the last finished call
  out,           \* the outgoing frame of the last finished call
  prev,          \* summary of the call before the current one
  callTag,       \* distinguishes the surface textures of consecutive calls
  calls,         \* render() calls started so far
  faults,        \* collaborator failures injected so far
  \* render() calls that overlap in time (the overlap specification)
  flight,        \* per call: where it is suspended and what it holds
  cachedReadback,\* the readback buffer the cache holds (0: none)
  mapping,       \* mapping state of each readback buffer created
  pixelOwner,    \* per CPU pixel buffer: the call whose pixels it holds
  maskOwner,     \* per mask texture: the call whose mask it holds
  hazards,       \* what went wrong between overlapping calls
  \* the settings menu (src/unnamed/part_001)
  hideTimer,     \* the variable hideTimer: a timer id, 0 for null
  timers,        \* ids of the timers that are pending
  videoRunning,  \* the variable videoRunning
  menuHidden,    \* settingsForm has class 'hidden'
  floatVisible,  \* floatBtn has class 'visible'
  pointerOver,   \* the pointer is over the settings form
  page           \* what the document is like, and what has happened so far

cfgVars == <<impl, zeroCopy, directOutput, env>>
pipeVars == <<device, canvas, configured, packShader, resourceCache, destroyed, fragShader,
              readbackState>>
localVars == <<videoFrame, dims0, useInterop, sourceTexture, maskTexture, canvasTexture,
               outputTexture>>
logVars == <<events, allocs, forced, bindFailed, draws, blurCalls>>
outVars == <<result, out, prev, callTag, calls>>
renderVars == <<cfgVars, segmenter, pc, pipeVars, localVars, logVars, outVars, faults>>
overlapVars == <<flight, cachedReadback, mapping, pixelOwner, maskOwner, hazards>>
menuVars == <<hideTimer, timers, videoRunning, menuHidden, floatVisible, pointerOver, page>>
otherVars == <<overlapVars, menuVars>>
vars == <<renderVars, otherVars>>

\* ----------------------------------------------------------- small helpers
\* may a collaborator call fail now?  (at most MaxFaults injected failures)
CanFail == IF faults < MaxFaults THEN BOOLEAN ELSE {FALSE}

Put(f, k, v) == [x \in DOMAIN f \cup {k} |-> IF x = k THEN v ELSE f[x]]

\* the frame's reported size taken as it is, without the fallback
ProcessingSizeNoFallback(f) == f.size

\* `videoFrame.displayWidth || 1280`, `videoFrame.displayHeight || 720`
ProcessingSize(f) ==
  <<IF f.size[1] = 0 THEN DefaultWidth ELSE f.size[1],
    IF f.size[2] = 0 THEN DefaultHeight ELSE f.size[2]>>

\* the capability check `segmentGPUBuffer && deviceType === 'gpu'`
UseInterop(s) == s.segmentGPUBuffer /\ s.deviceType = "gpu"

\* the downscale shader url picked by the class constructor
PackShaderUrl(s) ==
  IF UseInterop(s) THEN "rgb16float" ELSE "rgba8uint"

\* ------------------------------------------------------------ resource cache
\* `${key}_${width}x${height}_${format}_${usage}`: format and usage are fixed
\* per key name for the life of a pipeline, so the key varies with name and size
TextureCacheKey(key, size) == <<key, size[1], size[2]>>

\* a get-or-create that overwrites a superseded object without destroying it
GetOrCreateTextureNoDestroy(cache, key, size) ==
  LET cacheKey == TextureCacheKey(key, size)
      hit == cacheKey \in DOMAIN cache
      old == IF hit THEN cache[cacheKey] ELSE NoTexture
      make == ~hit \/ old.width # size[1] \/ old.height # size[2]
      new == [key |-> cacheKey, width |-> size[1], height |-> size[2], gen |-> old.gen + 1]
  IN  [texture |-> IF make THEN new ELSE old,
       cache |-> IF make THEN Put(cache, cacheKey, new) ELSE cache,
       created |-> make,
       destroyed |-> {}]

\* getOrCreateTexture: the texture returned, the cache after the call, whether
\* createTexture ran and which objects destroy() was called on
GetOrCreateTexture(cache, key, size) ==
  LET cacheKey == TextureCacheKey(key, size)
      hit == cacheKey \in DOMAIN cache
      old == IF hit THEN cache[cacheKey] ELSE NoTexture
      make == ~hit \/ old.width # size[1] \/ old.height # size[2]
      new == [key |-> cacheKey, width |-> size[1], height |-> size[2], gen |-> old.gen + 1]
  IN  [texture |-> IF make THEN new ELSE old,
       cache |-> IF make THEN Put(cache, cacheKey, new) ELSE cache,
       created |-> make,
       destroyed |-> IF make /\ hit THEN {old} ELSE {}]

\* getOrCreateResource: createFn runs only when the key holds nothing
GetOrCreateResource(cache, key) ==
  LET hit == key \in DOMAIN cache
      new == [key |-> key, width |-> key[2], height |-> key[3], gen |-> 1]
  IN  [resource |-> IF hit THEN cache[key] ELSE new,
       cache |-> IF hit THEN cache ELSE Put(cache, key, new),
       created |-> ~hit]

ReadbackKey == <<"readbackBuffer", segmentationWidth * segmentationHeight * 4, 0>>
RenderPipelineKey(size) == <<"renderPipeline", size[1], size[2]>>

\* getOutputRendererFragmentShader: does the call build a new shader module?
\* closure: lastDim !== `${width}x${height}` compares strings;
\* class:   this.lastDim !== [width, height] compares a fresh array by identity
FragmentShaderRebuilt(i, shader, size) ==
  IF i = "closure"
    THEN ~shader.present \/ shader.lastDim # size
    ELSE TRUE

\* the name under which the downscale target texture is cached
DownscaleKeyName(i) == IF i = "closure" THEN "downscaleDest" ELSE "downscaledTexture"

\* the segmenters a pipeline may be given.  The class source reads both flags;
\* the closure source calls the segmenter as a plain function and reads no
\* flag, so two representatives stand for it.
Segmenters(i) ==
  IF i = "class"
    THEN [segmentGPUBuffer : BOOLEAN, deviceType : {"cpu", "gpu"}]
    ELSE {[segmentGPUBuffer |-> FALSE, deviceType |-> "cpu"],
          [segmentGPUBuffer |-> TRUE, deviceType |-> "gpu"]}

\* --------------------------------------------------------------- initially
\* the calls that may be in flight together
Callers == 1..MaxInFlight

NoFlight == [pc |-> "idle", readback |-> 0, pixels |-> 0, mask |-> NoSize, blurMask |-> 0]

\* no call in flight, nothing created
OverlapIdle ==
  /\ flight = [c \in Callers |-> NoFlight]
  /\ cachedReadback = 0
  /\ mapping = [b \in Callers |-> "unmapped"]
  /\ pixelOwner = [i \in {0} \cup Callers |-> 0]
  /\ maskOwner = [m \in MaskSizes |-> 0]
  /\ hazards = {}

NoPage == [loaded |-> FALSE, buttonsInForm |-> FALSE, togetherAtStart |-> FALSE,
           stopped |-> FALSE]

\* the menu script not running
MenuIdle ==
  /\ hideTimer = 0
  /\ timers = {}
  /\ videoRunning = FALSE
  /\ menuHidden = FALSE
  /\ floatVisible = FALSE
  /\ pointerOver = FALSE
  /\ page = NoPage

Init ==
  /\ OverlapIdle
  /\ MenuIdle
  /\ impl \in Impls
  /\ zeroCopy \in BOOLEAN
  /\ directOutput \in BOOLEAN
  /\ env \in [hasAdapter : BOOLEAN, hasContext : BOOLEAN, hasDevice : BOOLEAN]
  /\ segmenter \in Segmenters(impl)
  /\ pc = "start"
  /\ device = "none"
  /\ canvas = NoSize
  /\ configured = NoSize
  /\ packShader = "none"
  /\ resourceCache = <<>>
  /\ destroyed = {}
  /\ fragShader = [present |-> FALSE, lastDim |-> NoSize]
  /\ readbackState = "none"
  /\ videoFrame = NoFrame
  /\ dims0 = NoSize
  /\ useInterop = FALSE
  /\ sourceTexture = NoTexture
  /\ maskTexture = NoTexture
  /\ canvasTexture = NoTexture
  /\ outputTexture = NoTexture
  /\ events = <<>>
  /\ allocs = {}
  /\ forced = FALSE
  /\ bindFailed = FALSE
  /\ draws = <<>>
  /\ blurCalls = <<>>
  /\ result = "none"
  /\ out = NoFrame
  /\ prev = NoPrev
  /\ callTag = 0
  /\ calls = 0
  /\ faults = 0

\* ------------------------------------------------------------ construction
\* navigator.gpu.requestAdapter(); `if (!adapter) throw`
RequestAdapter ==
  /\ pc = "start"
  /\ pc' = IF env.hasAdapter THEN "adapter" ELSE "failed"
  /\ UNCHANGED <<otherVars, cfgVars, segmenter, pipeVars, localVars, logVars, outVars, faults>>

\* adapter.requestDevice(): with no device the promise rejects, or (what the
\* class source tests for) resolves to nothing, which is only logged
RequestDevice ==
  /\ pc = "adapter"
  /\ \/ /\ env.hasDevice
        /\ device' = "ok"
        /\ pc' = "device"
     \/ /\ ~env.hasDevice
        /\ \/ device' = "none" /\ pc' = "failed"
           \/ device' = "null" /\ pc' = "device"
  /\ UNCHANGED <<otherVars, cfgVars, segmenter, canvas, configured, packShader, resourceCache,
                 destroyed, fragShader, readbackState, localVars, logVars, outVars,
                 faults>>

\* construction without the `if (!context) throw` test
ConstructionThrowsNoContextTest(hasContext, dev, blurInitOk) ==
  dev # "ok" \/ ~blurInitOk

\* Does the rest of construction throw?  `if (!context) throw`; with no device
\* the first `device.create...` call (class: this.device.createSampler, closure:
\* device.createShaderModule) throws a TypeError; blurrer.init() may reject.
ConstructionThrows(hasContext, dev, blurInitOk) ==
  ~hasContext \/ dev # "ok" \/ ~blurInitOk

\* the body of createWebGPUBlurRenderer / the WebGPURenderer constructor
CreateRenderer ==
  /\ pc = "device"
  /\ \E blurInitOk \in BOOLEAN :
       IF ConstructionThrows(env.hasContext, device, blurInitOk)
         THEN /\ pc' = "failed"
              /\ UNCHANGED <<canvas, configured, packShader>>
         ELSE /\ pc' = "idle"
              /\ canvas' = <<DefaultWidth, DefaultHeight>>
              /\ configured' = <<DefaultWidth, DefaultHeight>>
              /\ packShader' = IF impl = "class" THEN PackShaderUrl(segmenter) ELSE "inline"
  /\ UNCHANGED <<otherVars, cfgVars, segmenter, device, resourceCache, destroyed, fragShader,
                 readbackState,
                 localVars, logVars, outVars, faults>>

\* ------------------------------------------------------------------ render
SegmentationSize == <<segmentationWidth, segmentationHeight>>

ExternalTexture == [key |-> <<"externalTexture", 0, 0>>, width |-> 0, height |-> 0, gen |-> 0]
InputBuffer == [key |-> <<"segmenterInputBuffer", 0, 0>>, width |-> 0, height |-> 0, gen |-> 0]

\* the surface texture getCurrentTexture() hands out in the call tagged `tag`
SurfaceTexture(tag, size) ==
  [key |-> <<"canvasTexture", 0, 0>>, width |-> size[1], height |-> size[2], gen |-> tag]

\* How a call that throws ends.  closure: render wraps renderWithWebGPU in
\* try/catch and resolves to undefined; class: render has no handler and the
\* returned promise rejects.
OnException(i) == IF i = "closure" THEN "dropped" ELSE "rejected"

Throw ==
  /\ pc' = "idle"
  /\ result' = OnException(impl)
  /\ out' = NoFrame

\* render(videoFrame) is called on an idle pipeline
Render(f) ==
  /\ pc = "idle"
  /\ calls < MaxCalls
  /\ calls' = calls + 1
  /\ pc' = "import"
  /\ videoFrame' = f
  /\ dims0' = IF impl = "closure" THEN canvas ELSE NoSize
  /\ useInterop' = FALSE
  /\ sourceTexture' = NoTexture
  /\ maskTexture' = NoTexture
  /\ canvasTexture' = NoTexture
  /\ outputTexture' = NoTexture
  /\ events' = <<>>
  /\ allocs' = {}
  /\ forced' = FALSE
  /\ bindFailed' = FALSE
  /\ draws' = <<>>
  /\ blurCalls' = <<>>
  /\ result' = "pending"
  /\ out' = NoFrame
  /\ prev' = [valid |-> result # "none", size |-> videoFrame.size, result |-> result,
              mask |-> <<maskTexture.width, maskTexture.height>>, bindFailed |-> bindFailed,
              forced |-> forced]
  /\ callTag' = 1 - callTag
  /\ UNCHANGED <<otherVars, cfgVars, segmenter, pipeVars, faults>>

\* import the source: importExternalTexture, or the cached source texture and
\* copyExternalImageToTexture
ImportSource ==
  /\ pc = "import"
  /\ \E throws \in CanFail :
       LET r == GetOrCreateTexture(resourceCache, "sourceTexture", videoFrame.size) IN
       /\ IF zeroCopy
            THEN /\ sourceTexture' = IF throws THEN NoTexture ELSE ExternalTexture
                 /\ UNCHANGED <<resourceCache, destroyed, allocs>>
            ELSE /\ sourceTexture' = r.texture
                 /\ resourceCache' = r.cache
                 /\ destroyed' = destroyed \cup r.destroyed
                 /\ allocs' = IF r.created THEN allocs \cup {r.texture.key} ELSE allocs
       /\ forced' = (forced \/ throws)
       /\ faults' = IF throws THEN faults + 1 ELSE faults
       /\ IF throws
            THEN Throw /\ UNCHANGED events
            ELSE /\ pc' = "downscale"
                 /\ events' = Append(events, "import")
                 /\ UNCHANGED <<result, out>>
  /\ UNCHANGED <<otherVars, cfgVars, segmenter, device, canvas, configured, packShader, fragShader,
                 readbackState,
                 videoFrame, dims0, useInterop, maskTexture, canvasTexture, outputTexture,
                 bindFailed, draws, blurCalls, prev, callTag, calls>>

\* binding 2 of the downscale bind group.
\* closure: destTexture.createView(); class: downscaledResource.texture, which
\* is undefined when downscaledResource is { buffer: ... }
DownscaleOutputBinding(i, downscaledResource) ==
  IF i = "closure" \/ "texture" \in DOMAIN downscaledResource
    THEN downscaledResource.texture
    ELSE Undefined

\* the downscale pass up to the await of mapAsync
\* (closure: lines 70-113; class: segment() lines 104-171).
\* closure: a createBindGroup failure is caught on the spot and the pass is
\* recorded without a bind group.  class: the failure leaves segment() and
\* render(); on the interop branch binding 2 is undefined, createBindGroup
\* always throws, and the rest of that branch (submit, segmentGPUBuffer,
\* getOutputBuffer, copyBufferToTexture: lines 134-157) is never reached.
Downscale ==
  /\ pc = "downscale"
  /\ \E bindThrows \in CanFail :
       LET interop == impl = "class" /\ UseInterop(segmenter)
           t == GetOrCreateTexture(resourceCache, DownscaleKeyName(impl), SegmentationSize)
           downscaledResource == IF interop THEN [buffer |-> InputBuffer]
                                            ELSE [texture |-> t.texture]
           typeError == DownscaleOutputBinding(impl, downscaledResource) = Undefined
           bindFails == typeError \/ bindThrows
           cache1 == IF interop THEN resourceCache ELSE t.cache
           made1 == IF ~interop /\ t.created THEN {t.texture.key} ELSE {}
           b == GetOrCreateResource(cache1, ReadbackKey)
           made2 == IF b.created THEN {ReadbackKey} ELSE {}
           before == IF interop THEN Append(events, "getInputBuffer") ELSE events
       IN
       /\ useInterop' = interop
       /\ bindFailed' = bindFails
       /\ forced' = (forced \/ (bindThrows /\ ~typeError))
       /\ faults' = IF (bindThrows /\ ~typeError) THEN faults + 1 ELSE faults
       /\ destroyed' = IF interop THEN destroyed ELSE destroyed \cup t.destroyed
       /\ IF bindFails /\ impl = "class"
            THEN /\ Throw
                 /\ resourceCache' = cache1
                 /\ allocs' = allocs \cup made1
                 /\ events' = before
                 /\ UNCHANGED readbackState
            ELSE /\ pc' = "map"
                 /\ readbackState' = "pending"
                 /\ resourceCache' = b.cache
                 /\ allocs' = allocs \cup made1 \cup made2
                 /\ events' = before \o <<"downscale", "copyTextureToBuffer", "submit">>
                 /\ UNCHANGED <<result, out>>
  /\ UNCHANGED <<otherVars, cfgVars, segmenter, device, canvas, configured, packShader, fragShader,
                 videoFrame, dims0, sourceTexture, maskTexture, canvasTexture,
                 outputTexture, draws, blurCalls, prev, callTag, calls>>

\* Does the readback step construct a new CPU pixel buffer?
\* closure: `imageDataCache ? imageDataCache : new ImageData(...)`, and nothing
\* ever assigns imageDataCache; class: this.downscaledImageData of the constructor
AllocatesImageData(i) == i = "closure"

ImageDataKey == <<"ImageData", segmentationWidth, segmentationHeight>>

\* a readback that leaves the buffer mapped
ReadbackEventsNoUnmap == <<"await:mapAsync", "copyMapped">>

\* the readback without the await of mapAsync
ReadbackEventsNoAwait == <<"copyMapped", "unmap">>

\* `await readbackBuffer.mapAsync(READ)`, data.set(getMappedRange()), unmap()
ReadbackEvents == <<"await:mapAsync", "copyMapped", "unmap">>

\* the mapping state of a buffer after one of the logged events
BufferStep(state, e) ==
  IF e = "await:mapAsync" THEN "mapped"
  ELSE IF e = "unmap" THEN "unmapped"
  ELSE state

\* ... and after a run of them
RECURSIVE BufferStateAfter(_, _)
BufferStateAfter(state, ev) ==
  IF ev = <<>> THEN state
  ELSE BufferStateAfter(BufferStep(state, Head(ev)), Tail(ev))

\* mapAsync settles (a rejected map leaves the buffer unmapped); the mapped
\* bytes are copied out and the buffer is unmapped
MapReadback ==
  /\ pc = "map"
  /\ \E throws \in CanFail :
       /\ forced' = (forced \/ throws)
       /\ faults' = IF throws THEN faults + 1 ELSE faults
       /\ IF throws
            THEN /\ Throw
                 /\ events' = Append(events, Head(ReadbackEvents))
                 /\ readbackState' = "unmapped"
                 /\ UNCHANGED allocs
            ELSE /\ pc' = "segment"
                 /\ events' = events \o ReadbackEvents
                 /\ readbackState' = BufferStateAfter(readbackState, ReadbackEvents)
                 /\ allocs' = IF AllocatesImageData(impl) THEN allocs \cup {ImageDataKey}
                                                         ELSE allocs
                 /\ UNCHANGED <<result, out>>
  /\ UNCHANGED <<otherVars, cfgVars, segmenter, device, canvas, configured, packShader,
                 resourceCache, destroyed, fragShader, localVars, bindFailed, draws,
                 blurCalls, prev, callTag, calls>>

\* the CPU segmenter is invoked and awaited; its mask (of the size it reports)
\* is uploaded into the cached mask texture
Segment ==
  /\ pc = "segment"
  /\ \E throws \in CanFail, m \in MaskSizes :
       LET r == GetOrCreateTexture(resourceCache, "maskTexture", m) IN
       /\ forced' = (forced \/ throws)
       /\ faults' = IF throws THEN faults + 1 ELSE faults
       /\ IF throws
            THEN /\ Throw
                 /\ events' = Append(events, "await:segment")
                 /\ UNCHANGED <<resourceCache, destroyed, allocs, maskTexture>>
            ELSE /\ pc' = "surface"
                 /\ events' = events \o <<"await:segment", "maskUpload">>
                 /\ maskTexture' = r.texture
                 /\ resourceCache' = r.cache
                 /\ destroyed' = destroyed \cup r.destroyed
                 /\ allocs' = IF r.created THEN allocs \cup {r.texture.key} ELSE allocs
                 /\ UNCHANGED <<result, out>>
  /\ UNCHANGED <<otherVars, cfgVars, segmenter, device, canvas, configured, packShader, fragShader,
                 readbackState,
                 videoFrame, dims0, useInterop, sourceTexture, canvasTexture,
                 outputTexture, bindFailed, draws, blurCalls, prev, callTag, calls>>

\* Is the identifier `context` bound where the surface is reconfigured?
\* closure: renderWithWebGPU is a module-level function and `context` is a
\* local of createWebGPUBlurRenderer (the function reads params.context one
\* statement later), so evaluating `context.configure` is a ReferenceError;
\* class: this.context.
ContextInScope(i) == i = "class"

\* the canvas size read before the resize, whichever source runs
OutputSizeAtCallStart(i, atStart, now) == atStart

\* the size of the intermediate output texture and of the render pipeline key.
\* closure: width/height read from the canvas before any resize (lines 45-46);
\* class: read from the canvas after the resize (lines 233-234)
OutputSize(i, atStart, now) == IF i = "closure" THEN atStart ELSE now

\* resize and reconfigure the surface if the frame's size differs, acquire the
\* surface texture, look up the intermediate output texture
AcquireSurface ==
  /\ pc = "surface"
  /\ \E throws \in CanFail :
       LET p == ProcessingSize(videoFrame)
           resize == canvas[1] # p[1] \/ canvas[2] # p[2]
           refError == resize /\ ~ContextInScope(impl)
           fails == refError \/ throws
           r == GetOrCreateTexture(resourceCache, "outputTexture", OutputSize(impl, dims0, p))
       IN
       /\ canvas' = p
       /\ forced' = (forced \/ (throws /\ ~refError))
       /\ faults' = IF (throws /\ ~refError) THEN faults + 1 ELSE faults
       /\ IF fails
            THEN /\ Throw
                 /\ UNCHANGED <<configured, resourceCache, destroyed, allocs, events,
                                canvasTexture, outputTexture>>
            ELSE /\ pc' = "blur"
                 /\ configured' = IF resize THEN p ELSE configured
                 /\ events' = events \o (IF resize THEN <<"configure">> ELSE <<>>)
                                     \o <<"getCurrentTexture">>
                 /\ canvasTexture' = SurfaceTexture(callTag, p)
                 /\ outputTexture' = r.texture
                 /\ resourceCache' = r.cache
                 /\ destroyed' = destroyed \cup r.destroyed
                 /\ allocs' = IF r.created THEN allocs \cup {r.texture.key} ELSE allocs
                 /\ UNCHANGED <<result, out>>
  /\ UNCHANGED <<otherVars, cfgVars, segmenter, device, packShader, fragShader, readbackState,
                 videoFrame, dims0,
                 useInterop, sourceTexture, maskTexture, bindFailed, draws, blurCalls,
                 prev, callTag, calls>>

\* a blur that always writes the intermediate output texture
BlurDestinationAlwaysIntermediate(direct, surface, intermediate) == intermediate

\* `params.directOutput ? canvasTexture : outputTexture`
BlurDestination(direct, surface, intermediate) == IF direct THEN surface ELSE intermediate

\* the branch after blur taken as if directOutput were always set
NextAfterBlurAlwaysDirect(direct) == "present"

\* `if (!directOutput) { composite }`: where the call goes after blur
NextAfterBlur(direct) == IF direct THEN "present" ELSE "composite"

\* blurrer.setInputDimensions(...); blurrer.blur(..., 360)
Blur ==
  /\ pc = "blur"
  /\ \E throws \in CanFail :
       /\ forced' = (forced \/ throws)
       /\ faults' = IF throws THEN faults + 1 ELSE faults
       /\ events' = events \o <<"setInputDimensions", "blur">>
       /\ blurCalls' = Append(blurCalls,
                          [inputDimensions |-> ProcessingSize(videoFrame),
                           destination |-> BlurDestination(directOutput, canvasTexture,
                                                           outputTexture),
                           kernel |-> BlurKernel])
       /\ IF throws
            THEN Throw
            ELSE /\ pc' = NextAfterBlur(directOutput)
                 /\ UNCHANGED <<result, out>>
  /\ UNCHANGED <<otherVars, cfgVars, segmenter, pipeVars, localVars, allocs, bindFailed, draws,
                 prev, callTag, calls>>

\* a draw of one triangle only
CompositeDrawOneTriangle(surface) == [vertexCount |-> 3, attachment |-> surface]

\* the draw call of the compositing pass: renderPass.draw(6) on a pass whose
\* colour attachment is canvasTexture.createView()
CompositeDraw(surface) == [vertexCount |-> DrawVertexCount, attachment |-> surface]

\* `if (!directOutput) { ... }`: render pipeline from the cache (building the
\* fragment shader when the pipeline is built), bind group, render pass, draw
Composite ==
  /\ pc = "composite"
  /\ \E throws \in CanFail :
       LET size == OutputSize(impl, dims0, canvas)
           r == GetOrCreateResource(resourceCache, RenderPipelineKey(size))
           rebuilt == r.created /\ FragmentShaderRebuilt(impl, fragShader, size)
           made == (IF r.created THEN {RenderPipelineKey(size)} ELSE {})
                     \cup (IF rebuilt THEN {<<"fragmentShader", size[1], size[2]>>} ELSE {})
           fetched == IF rebuilt /\ impl = "class" THEN Append(events, "fetch:render.fragment")
                                                  ELSE events
       IN
       /\ resourceCache' = r.cache
       /\ fragShader' = IF rebuilt THEN [present |-> TRUE, lastDim |-> size] ELSE fragShader
       /\ allocs' = allocs \cup made
       /\ forced' = (forced \/ throws)
       /\ faults' = IF throws THEN faults + 1 ELSE faults
       /\ bindFailed' = (bindFailed \/ throws)
       /\ IF throws
            THEN /\ Throw
                 /\ events' = fetched
                 /\ UNCHANGED draws
            ELSE /\ pc' = "present"
                 /\ events' = Append(fetched, "draw")
                 /\ draws' = Append(draws, CompositeDraw(canvasTexture))
                 /\ UNCHANGED <<result, out>>
  /\ UNCHANGED <<otherVars, cfgVars, segmenter, device, canvas, configured, packShader, destroyed,
                 readbackState, localVars, blurCalls, prev, callTag, calls>>

\* a VideoFrame built without passing the duration on
OutgoingFrameNoDuration(f, surfaceSize) ==
  [size |-> surfaceSize, timestamp |-> f.timestamp, duration |-> 0]

\* new VideoFrame(webgpuCanvas, { timestamp, duration })
OutgoingFrame(f, surfaceSize) ==
  [size |-> surfaceSize, timestamp |-> f.timestamp, duration |-> f.duration]

\* submit the frame's commands and return the outgoing frame
Present ==
  /\ pc = "present"
  /\ pc' = "idle"
  /\ events' = events \o <<"submit", "present">>
  /\ out' = OutgoingFrame(videoFrame, canvas)
  /\ result' = "frame"
  /\ UNCHANGED <<otherVars, cfgVars, segmenter, pipeVars, localVars, allocs, forced, bindFailed,
                 draws, blurCalls, prev, callTag, calls, faults>>

Next ==
  \/ RequestAdapter
  \/ RequestDevice
  \/ CreateRenderer
  \/ \E f \in Frames : Render(f)
  \/ ImportSource
  \/ Downscale
  \/ MapReadback
  \/ Segment
  \/ AcquireSurface
  \/ Blur
  \/ Composite
  \/ Present

Spec == Init /\ [][Next]_vars

\* ------------------------------------------------ capability flags that move
\* The class source keeps the segmenter object and reads its segmentGPUBuffer
\* and deviceType afresh in every segment() call, so what a frame sees is what
\* the object says then.  Between two calls the flags may take other values.
FlagsChange ==
  /\ pc = "idle"
  /\ \E s \in Segmenters(impl) \ {segmenter} : segmenter' = s
  /\ UNCHANGED <<otherVars, cfgVars, pc, pipeVars, localVars, logVars, outVars, faults>>

FlagsNext == Next \/ FlagsChange

SpecFlags == Init /\ [][FlagsNext]_vars

\* ---------------------------------------------- render() calls that overlap
\* The CPU path of two or more render() calls on one pipeline, interleaved at
\* their awaits.  A call is numbered by the order in which it is started; the
\* readback buffer a call creates carries the call's number.
\*   closure: renderWithWebGPU runs without a break up to `await mapAsync`,
\*            then up to `await segmenter(...)`, then to its end;
\*   class:   render()/segment() are suspended as well at `await
\*            this.downscalePipeline`, inside getOrCreateResource at
\*            `await createFn()`, when segment() returns to render(), and at
\*            the `await this.getOrCreateResource(...)` of the compositing pass.
RenderParked ==
  /\ zeroCopy = FALSE
  /\ env = [hasAdapter |-> TRUE, hasContext |-> TRUE, hasDevice |-> TRUE]
  /\ segmenter = [segmentGPUBuffer |-> FALSE, deviceType |-> "cpu"]
  /\ pc = "parked"
  /\ device = "ok"
  /\ canvas = NoSize
  /\ configured = NoSize
  /\ packShader = "none"
  /\ resourceCache = <<>>
  /\ destroyed = {}
  /\ fragShader = [present |-> FALSE, lastDim |-> NoSize]
  /\ readbackState = "none"
  /\ videoFrame = NoFrame
  /\ dims0 = NoSize
  /\ useInterop = FALSE
  /\ sourceTexture = NoTexture
  /\ maskTexture = NoTexture
  /\ canvasTexture = NoTexture
  /\ outputTexture = NoTexture
  /\ events = <<>>
  /\ allocs = {}
  /\ forced = FALSE
  /\ bindFailed = FALSE
  /\ draws = <<>>
  /\ blurCalls = <<>>
  /\ result = "none"
  /\ out = NoFrame
  /\ prev = NoPrev
  /\ callTag = 0
  /\ calls = 0
  /\ faults = 0

OverlapInit ==
  /\ impl \in Impls
  /\ directOutput \in BOOLEAN
  /\ RenderParked
  /\ OverlapIdle
  /\ MenuIdle

\* the calls that have been started and have not ended
InFlight == {c \in Callers : flight[c].pc \notin {"idle", "done", "failed"}}

\* a render() that waits for the calls in flight to end
MayStartSerialized(inFlight) == inFlight = {}

\* May render() start while the calls of inFlight are suspended?  Neither
\* source holds a lock, a queue or a busy flag: render() begins its work at once.
MayStart(inFlight) == TRUE

\* the CPU pixel buffer a call copies the mapped bytes into.
\* class: this.downscaledImageData, one object made by the constructor;
\* closure: `imageDataCache ? imageDataCache : new ImageData(...)`, a new
\* object in every call since nothing assigns imageDataCache
PixelBufferOf(i, c) == IF i = "class" THEN 0 ELSE c

\* copyTextureToBuffer, submit and mapAsync(READ) on buffer b: mapAsync
\* rejects when the buffer is mapped or has a map pending
MapOutcome(b) ==
  IF mapping[b] = "unmapped"
    THEN [pc |-> "map", mapping |-> [mapping EXCEPT ![b] = "pending"], hazards |-> {}]
    ELSE [pc |-> "failed", mapping |-> mapping, hazards |-> {"mapWhilePending"}]

\* render(videoFrame) is called
StartRender(c) ==
  /\ flight[c].pc = "idle"
  /\ \A d \in Callers : d < c => flight[d].pc # "idle"
  /\ MayStart(InFlight)
  /\ IF impl = "closure"
       THEN LET b == IF cachedReadback = 0 THEN c ELSE cachedReadback
                r == MapOutcome(b)
            IN  /\ cachedReadback' = b
                /\ mapping' = r.mapping
                /\ hazards' = hazards \cup r.hazards
                /\ flight' = [flight EXCEPT ![c].pc = r.pc, ![c].readback = b,
                                            ![c].pixels = PixelBufferOf(impl, c)]
       ELSE /\ flight' = [flight EXCEPT ![c].pc = "pipeline"]
            /\ UNCHANGED <<cachedReadback, mapping, hazards>>
  /\ UNCHANGED <<renderVars, menuVars, pixelOwner, maskOwner>>

\* class: getOrCreateResource tests `!this.resourceCache[key]`; with a buffer
\* cached the call goes on to the copy and the map, with none it calls
\* createFn and is suspended at `await createFn()`
LookupReadback(c) ==
  /\ flight[c].pc = "pipeline"
  /\ IF cachedReadback # 0
       THEN LET r == MapOutcome(cachedReadback) IN
            /\ mapping' = r.mapping
            /\ hazards' = hazards \cup r.hazards
            /\ flight' = [flight EXCEPT ![c].pc = r.pc, ![c].readback = cachedReadback,
                                        ![c].pixels = PixelBufferOf(impl, c)]
       ELSE /\ flight' = [flight EXCEPT ![c].pc = "create", ![c].readback = c]
            /\ UNCHANGED <<mapping, hazards>>
  /\ UNCHANGED <<renderVars, menuVars, cachedReadback, pixelOwner, maskOwner>>

\* class: `this.resourceCache[key] = await createFn(); return
\* this.resourceCache[key]`: the buffer is stored over whatever another call
\* has stored meanwhile, then copied into and asked to map
StoreReadback(c) ==
  /\ flight[c].pc = "create"
  /\ LET b == flight[c].readback
         r == MapOutcome(b)
         replaced == IF cachedReadback # 0 THEN {"readbackBufferReplaced"} ELSE {}
     IN  /\ cachedReadback' = b
         /\ mapping' = r.mapping
         /\ hazards' = hazards \cup r.hazards \cup replaced
         /\ flight' = [flight EXCEPT ![c].pc = r.pc, ![c].pixels = PixelBufferOf(impl, c)]
  /\ UNCHANGED <<renderVars, menuVars, pixelOwner, maskOwner>>

\* mapAsync resolves: the mapped bytes are copied into the call's CPU pixel
\* buffer, the buffer is unmapped and the segmenter is invoked on the pixels
MapResolves(c) ==
  /\ flight[c].pc = "map"
  /\ LET i == flight[c].pixels
         busy == \E d \in Callers \ {c} : flight[d].pc = "segment" /\ flight[d].pixels = i
     IN  /\ mapping' = [mapping EXCEPT ![flight[c].readback] = "unmapped"]
         /\ pixelOwner' = [pixelOwner EXCEPT ![i] = c]
         /\ hazards' = IF busy THEN hazards \cup {"pixelsOverwritten"} ELSE hazards
         /\ flight' = [flight EXCEPT ![c].pc = "segment"]
  /\ UNCHANGED <<renderVars, menuVars, cachedReadback, maskOwner>>

\* the commands of call c are submitted: its blur reads what the mask texture
\* of its size holds by then
Submitted(c, fl, owner) ==
  [fl EXCEPT ![c].pc = "done", ![c].blurMask = owner[fl[c].mask]]

\* the segmenter resolves with a mask of size m, which is written into the
\* cached mask texture of that size.  closure: the call then runs to its end;
\* class: segment() returns and render() is resumed later
SegmenterResolves(c, m) ==
  /\ flight[c].pc = "segment"
  /\ maskOwner' = [maskOwner EXCEPT ![m] = c]
  /\ LET uploaded == [flight EXCEPT ![c].mask = m] IN
     flight' = IF impl = "closure"
                 THEN Submitted(c, uploaded, maskOwner')
                 ELSE [uploaded EXCEPT ![c].pc = "resume"]
  /\ UNCHANGED <<renderVars, menuVars, cachedReadback, mapping, pixelOwner, hazards>>

\* class: render() goes on after `await this.segment(...)`: the blur is
\* recorded; with directOutput the commands are submitted, otherwise the call
\* is suspended at the await of the render pipeline
ResumeRender(c) ==
  /\ flight[c].pc = "resume"
  /\ flight' = IF directOutput THEN Submitted(c, flight, maskOwner)
                               ELSE [flight EXCEPT ![c].pc = "composite"]
  /\ hazards' = IF directOutput /\ maskOwner[flight[c].mask] # c
                  THEN hazards \cup {"foreignMask"} ELSE hazards
  /\ UNCHANGED <<renderVars, menuVars, cachedReadback, mapping, pixelOwner, maskOwner>>

\* class: the compositing pass is recorded and the commands are submitted
SubmitComposited(c) ==
  /\ flight[c].pc = "composite"
  /\ flight' = Submitted(c, flight, maskOwner)
  /\ hazards' = IF maskOwner[flight[c].mask] # c
                  THEN hazards \cup {"foreignMask"} ELSE hazards
  /\ UNCHANGED <<renderVars, menuVars, cachedReadback, mapping, pixelOwner, maskOwner>>

OverlapNext ==
  \E c \in Callers :
    \/ StartRender(c)
    \/ LookupReadback(c)
    \/ StoreReadback(c)
    \/ MapResolves(c)
    \/ \E m \in MaskSizes : SegmenterResolves(c, m)
    \/ ResumeRender(c)
    \/ SubmitComposited(c)

SpecOverlap == OverlapInit /\ [][OverlapNext]_vars

\* ------------------------------------------------------- the settings menu
\* The script of src/unnamed/part_001: its two variables, the two class lists
\* it edits, and the timers it has started.  A handler runs to its end without
\* interruption, so each event is one step.  The functions of the script take
\* and return the state they work on:
\*   [hideTimer, timers, videoRunning, menuHidden, floatVisible]
\* Timer ids stand for the numbers setTimeout returns; an id is reused only
\* when it is neither pending nor held in hideTimer.
TimerIds == 1..MaxTimerIds

Ui ==
  [hideTimer |-> hideTimer, timers |-> timers, videoRunning |-> videoRunning,
   menuHidden |-> menuHidden, floatVisible |-> floatVisible]

\* a showMenu that leaves the floating button alone
showMenuKeepsFloatBtn(u) == [u EXCEPT !.menuHidden = FALSE]

\* classList.remove('hidden') on the form, classList.remove('visible') on the button
showMenu(u) == [u EXCEPT !.menuHidden = FALSE, !.floatVisible = FALSE]

hideMenu(u) == [u EXCEPT !.menuHidden = TRUE]

showFloatBtn(u) == [u EXCEPT !.floatVisible = TRUE]

hideFloatBtn(u) == [u EXCEPT !.floatVisible = FALSE]

\* a clearHideTimer that forgets the id without cancelling the timer
clearHideTimerForgetsOnly(u) == [u EXCEPT !.hideTimer = 0]

\* `if (hideTimer) { clearTimeout(hideTimer); hideTimer = null; }`
clearHideTimer(u) ==
  IF u.hideTimer # 0
    THEN [u EXCEPT !.timers = @ \ {u.hideTimer}, !.hideTimer = 0]
    ELSE u

\* the id setTimeout returns
NewTimerId(u) == CHOOSE t \in TimerIds : t \notin u.timers /\ t # u.hideTimer

\* `if (!videoRunning) return; showMenu(); clearHideTimer(); hideTimer = setTimeout(...)`
resetHideTimer(u) ==
  IF ~u.videoRunning
    THEN u
    ELSE LET v == clearHideTimer(showMenu(u))
             t == NewTimerId(v)
         IN  [v EXCEPT !.hideTimer = t, !.timers = @ \cup {t}]

\* the body shared by the start click and playing handlers
Started(u) == resetHideTimer([u EXCEPT !.videoRunning = TRUE])

\* the body shared by the stop click, pause and ended handlers
Stopped(u) == hideFloatBtn(showMenu(clearHideTimer([u EXCEPT !.videoRunning = FALSE])))

\* the document's click handler, for a target outside the form and the button
documentClick(u) ==
  IF ~u.videoRunning
    THEN u
    ELSE clearHideTimer(showFloatBtn(hideMenu(u)))

\* A click on the start or stop button bubbles: through the form, whose
\* handler stops it, when the button lies in the form; to the document otherwise.
Bubbled(u) == IF page.buttonsInForm THEN u ELSE documentClick(u)

\* the document's mousemove handler
documentMouseMove(u) ==
  IF ~u.videoRunning
    THEN u
    ELSE IF u.menuHidden THEN showFloatBtn(u) ELSE resetHideTimer(u)

Becomes(u) ==
  /\ hideTimer' = u.hideTimer
  /\ timers' = u.timers
  /\ videoRunning' = u.videoRunning
  /\ menuHidden' = u.menuHidden
  /\ floatVisible' = u.floatVisible

\* The script has run: hideTimer is null and videoRunning false.  The classes
\* the document gives the form and the button, and whether the start and stop
\* buttons lie inside the form, are the document's choice.
MenuInit ==
  /\ impl = "class"
  /\ directOutput = FALSE
  /\ RenderParked
  /\ OverlapIdle
  /\ hideTimer = 0
  /\ timers = {}
  /\ videoRunning = FALSE
  /\ menuHidden \in BOOLEAN
  /\ floatVisible \in BOOLEAN
  /\ pointerOver = FALSE
  /\ \E b \in BOOLEAN :
       page = [loaded |-> FALSE, buttonsInForm |-> b,
               togetherAtStart |-> (~menuHidden /\ floatVisible), stopped |-> FALSE]

\* window 'load': the video is playing, or it is not
Load(playing) ==
  /\ ~page.loaded
  /\ IF playing
       THEN /\ Becomes(Started(Ui))
            /\ page' = [page EXCEPT !.loaded = TRUE, !.stopped = FALSE]
       ELSE /\ Becomes(hideFloatBtn(showMenu([Ui EXCEPT !.videoRunning = FALSE])))
            /\ page' = [page EXCEPT !.loaded = TRUE]
  /\ UNCHANGED <<renderVars, overlapVars, pointerOver>>

\* startButton 'click'
StartClick ==
  /\ Becomes(Bubbled(Started(Ui)))
  /\ page' = [page EXCEPT !.stopped = FALSE]
  /\ UNCHANGED <<renderVars, overlapVars, pointerOver>>

\* stopButton 'click'
StopClick ==
  /\ Becomes(Bubbled(Stopped(Ui)))
  /\ page' = [page EXCEPT !.stopped = TRUE]
  /\ UNCHANGED <<renderVars, overlapVars, pointerOver>>

\* processedVideo 'playing'
Playing ==
  /\ Becomes(Started(Ui))
  /\ page' = [page EXCEPT !.stopped = FALSE]
  /\ UNCHANGED <<renderVars, overlapVars, pointerOver>>

\* processedVideo 'pause'
Pause ==
  /\ Becomes(Stopped(Ui))
  /\ page' = [page EXCEPT !.stopped = TRUE]
  /\ UNCHANGED <<renderVars, overlapVars, pointerOver>>

\* processedVideo 'ended'
Ended ==
  /\ Becomes(Stopped(Ui))
  /\ page' = [page EXCEPT !.stopped = TRUE]
  /\ UNCHANGED <<renderVars, overlapVars, pointerOver>>

\* settingsForm 'mouseenter'
MouseEnter ==
  /\ ~pointerOver
  /\ pointerOver' = TRUE
  /\ Becomes(clearHideTimer(Ui))
  /\ UNCHANGED <<renderVars, overlapVars, page>>

\* settingsForm 'mouseleave'
MouseLeave ==
  /\ pointerOver
  /\ pointerOver' = FALSE
  /\ Becomes(IF videoRunning THEN resetHideTimer(Ui) ELSE Ui)
  /\ UNCHANGED <<renderVars, overlapVars, page>>

\* document 'mousemove', wherever the pointer is
MouseMove ==
  /\ Becomes(documentMouseMove(Ui))
  /\ UNCHANGED <<renderVars, overlapVars, pointerOver, page>>

\* floatBtn 'click': stopPropagation, so the document's handler does not run
FloatBtnClick ==
  /\ Becomes(resetHideTimer(hideFloatBtn(showMenu(Ui))))
  /\ UNCHANGED <<renderVars, overlapVars, pointerOver, page>>

\* settingsForm 'click', target not a button: stopPropagation and nothing else
FormClick ==
  /\ UNCHANGED <<renderVars, overlapVars, menuVars>>

\* document 'click' with a target outside the form and the floating button
DocumentClick ==
  /\ Becomes(documentClick(Ui))
  /\ UNCHANGED <<renderVars, overlapVars, pointerOver, page>>

\* the callback of setTimeout: hideMenu(); showFloatBtn(); hideTimer keeps the id
TimerExpires(t) ==
  /\ t \in timers
  /\ Becomes(showFloatBtn(hideMenu([Ui EXCEPT !.timers = @ \ {t}])))
  /\ UNCHANGED <<renderVars, overlapVars, pointerOver, page>>

MenuNext ==
  \/ \E playing \in BOOLEAN : Load(playing)
  \/ StartClick
  \/ StopClick
  \/ Playing
  \/ Pause
  \/ Ended
  \/ MouseEnter
  \/ MouseLeave
  \/ MouseMove
  \/ FloatBtnClick
  \/ FormClick
  \/ DocumentClick
  \/ \E t \in TimerIds : TimerExpires(t)

SpecMenu == MenuInit /\ [][MenuNext]_vars

\* ------------------------------------------- getOrCreateTexture on its own
\* getOrCreateTexture(device, cache, key, size, ...) applied to any cache it
\* may be handed: a cache is a plain object, and under a key it holds nothing
\* or a texture of some width and height.  The request of a step is recorded
\* in dims0 (the size asked for), sourceTexture (what the key held before the
\* request, NoTexture if nothing) and outputTexture (the texture returned).
CacheNames == {"sourceTexture", "outputTexture"}
CacheSizes == FrameSizes \ {NoSize}
CacheKeys == {TextureCacheKey(n, s) : n \in CacheNames, s \in CacheSizes}

\* the caches whose keys hold nothing or a texture of any of the sizes
CacheInputs ==
  UNION {[ks -> CacheSizes] : ks \in SUBSET CacheKeys}

StoredTexture(cacheKey, size) ==
  [key |-> cacheKey, width |-> size[1], height |-> size[2], gen |-> 1]

CacheInit ==
  /\ OverlapIdle
  /\ MenuIdle
  /\ impl \in Impls
  /\ zeroCopy = FALSE
  /\ directOutput = FALSE
  /\ env = [hasAdapter |-> TRUE, hasContext |-> TRUE, hasDevice |-> TRUE]
  /\ segmenter = [segmentGPUBuffer |-> FALSE, deviceType |-> "cpu"]
  /\ pc = "cache"
  /\ device = "ok"
  /\ canvas = NoSize
  /\ configured = NoSize
  /\ packShader = "none"
  /\ \E c \in CacheInputs :
       resourceCache = [k \in DOMAIN c |-> StoredTexture(k, c[k])]
  /\ destroyed = {}
  /\ fragShader = [present |-> FALSE, lastDim |-> NoSize]
  /\ readbackState = "none"
  /\ videoFrame = NoFrame
  /\ dims0 = NoSize
  /\ useInterop = FALSE
  /\ sourceTexture = NoTexture
  /\ maskTexture = NoTexture
  /\ canvasTexture = NoTexture
  /\ outputTexture = NoTexture
  /\ events = <<>>
  /\ allocs = {}
  /\ forced = FALSE
  /\ bindFailed = FALSE
  /\ draws = <<>>
  /\ blurCalls = <<>>
  /\ result = "none"
  /\ out = NoFrame
  /\ prev = NoPrev
  /\ callTag = 0
  /\ calls = 0
  /\ faults = 0

\* one call getOrCreateTexture(device, cache, key, size, ...)
TextureRequest(key, size) ==
  /\ pc = "cache"
  /\ LET cacheKey == TextureCacheKey(key, size)
         r == GetOrCreateTexture(resourceCache, key, size)
     IN  /\ sourceTexture' = IF cacheKey \in DOMAIN resourceCache
                                THEN resourceCache[cacheKey] ELSE NoTexture
         /\ outputTexture' = r.texture
         /\ resourceCache' = r.cache
         /\ destroyed' = destroyed \cup r.destroyed
         /\ allocs' = IF r.created THEN {cacheKey} ELSE {}
         /\ events' = <<key>>
         /\ dims0' = size
  /\ UNCHANGED <<otherVars, cfgVars, segmenter, pc, device, canvas, configured, packShader,
                 fragShader, readbackState, videoFrame, useInterop, maskTexture,
                 canvasTexture,
                 forced, bindFailed, draws, blurCalls, outVars, faults>>

CacheNext == \E key \in CacheNames, size \in CacheSizes : TextureRequest(key, size)

SpecCache == CacheInit /\ [][CacheNext]_vars

TypeOK ==
  /\ pc \in {"start", "adapter", "device", "failed", "idle", "import", "downscale", "map",
             "segment", "surface", "blur", "composite", "present", "cache", "parked"}
  /\ result \in {"none", "pending", "frame", "dropped", "rejected"}
  /\ readbackState \in {"none", "pending", "mapped", "unmapped"}

\* ------------------------------------------------------------------ claims
CallEnded == pc = "idle" /\ calls >= 1

CountOf(ev, e) == Cardinality({i \in 1..Len(ev) : ev[i] = e})

Before(ev, a, b) ==
  \E i, j \in 1..Len(ev) : i < j /\ ev[i] = a /\ ev[j] = b

\* the call did the texture-to-buffer copy or asked for the map
DidReadback == CountOf(events, "copyTextureToBuffer") + CountOf(events, "await:mapAsync") > 0

\* the call awaited the GPU-native segmenter's inference
GpuProtocol == CountOf(events, "await:segmentGPUBuffer") > 0

\* the call awaited the readback map and then the CPU segmenter's result
CpuProtocol ==
  /\ CountOf(events, "await:mapAsync") = 1
  /\ CountOf(events, "await:segment") = 1
  /\ Before(events, "await:mapAsync", "await:segment")

\* C1: no render() call ends by propagating an exception to its caller: a call
\* in which a step throws completes with no outgoing frame.
C1_ExceptionsCaught == CallEnded => result \in {"frame", "dropped"}

\* C2: when a frame's display size differs from the previous frame's, the
\* source and output textures made for the old size are destroyed, and the call
\* still returns an outgoing frame at the new size.
C2_ResizeRecreates ==
  (CallEnded /\ prev.valid /\ prev.result = "frame" /\ ~forced
     /\ prev.size # NoSize /\ videoFrame.size # NoSize
     /\ prev.size # videoFrame.size)
  => /\ result = "frame"
     /\ out.size = ProcessingSize(videoFrame)
     /\ \A k \in DOMAIN resourceCache :
          (k[1] = "sourceTexture" /\ <<k[2], k[3]>> = prev.size)
            => resourceCache[k] \in destroyed

\* C3: of two consecutive calls with the same display size and the same mask
\* size, the second constructs nothing: every lookup is served from the cache.
C3_NoReallocation ==
  (CallEnded /\ prev.valid /\ prev.result = "frame" /\ result = "frame"
     /\ prev.size = videoFrame.size /\ videoFrame.size # NoSize
     /\ prev.mask = <<maskTexture.width, maskTexture.height>>)
  => allocs = {}

\* C4: a call that reaches segmentation runs the GPU-native path, with no
\* readback, exactly when the segmenter offers GPU buffers with "gpu" affinity,
\* and the readback path for every other pair of flags.
C4_PathMatchesCapability ==
  (CallEnded /\ ~forced /\ CountOf(events, "import") = 1)
  => IF UseInterop(segmenter)
       THEN GpuProtocol /\ ~DidReadback
       ELSE DidReadback /\ ~GpuProtocol

\* C5 as claimed: every call issues no draw when directOutput is set, and
\* exactly one draw of six vertices onto this call's surface texture otherwise
\* (stated for the calls that return a frame or meet a collaborator failure).
C5_OneDrawEveryCall ==
  (CallEnded /\ (result = "frame" \/ forced))
  => IF directOutput
       THEN Len(draws) = 0
       ELSE Len(draws) = 1

\* C5 as amended: with directOutput no call draws; without it a call draws at
\* most once, exactly once when it returns a frame, and every draw has six
\* vertices and targets the surface texture acquired in the same call.
C5_Draws ==
  /\ directOutput => Len(draws) = 0
  /\ ~directOutput =>
       /\ Len(draws) <= 1
       /\ result = "frame" => Len(draws) = 1
       /\ \A i \in 1..Len(draws) :
            /\ draws[i].vertexCount = DrawVertexCount
            /\ draws[i].attachment = SurfaceTexture(callTag, ProcessingSize(videoFrame))
            /\ CountOf(events, "getCurrentTexture") = 1

C5_Witness ==
  /\ CallEnded /\ calls = 2 /\ ~directOutput /\ result = "frame" /\ Len(draws) = 1
  /\ prev.result = "frame"

\* C6: after a call in which a bind-group construction was made to fail, the
\* next call, met by no failure of its own, returns an outgoing frame.
C6_BindFailureRecovers ==
  (CallEnded /\ prev.valid /\ prev.bindFailed /\ prev.forced /\ ~forced)
  => result = "frame"

\* C7: an outgoing frame carries the timestamp and the duration of the frame
\* passed to the call that returned it.
C7_TimesPreserved ==
  result = "frame" =>
    /\ out.timestamp = videoFrame.timestamp
    /\ out.duration = videoFrame.duration

C7_Witness ==
  /\ CallEnded /\ result = "frame" /\ calls = 2
  /\ videoFrame.timestamp # videoFrame.duration
  /\ zeroCopy /\ directOutput

\* C8: a pipeline exists (construction returned) only if the adapter, the
\* context and the device were all available.
C8_ConstructionNeedsAll ==
  pc \notin {"start", "adapter", "device", "failed"}
    => env.hasAdapter /\ env.hasContext /\ env.hasDevice

C8_Witness ==
  /\ pc = "failed" /\ device = "null"
  /\ env.hasAdapter /\ env.hasContext /\ ~env.hasDevice

\* C9 as claimed: every call, dropped ones included, goes through exactly one
\* of the two segmentation protocols (stated for the calls that return a frame
\* or meet a collaborator failure).
C9_OneProtocolEveryCall ==
  (CallEnded /\ (result = "frame" \/ forced))
  => (GpuProtocol /\ ~DidReadback) \/ (CpuProtocol /\ ~GpuProtocol)

\* C9 as amended: no call goes through both protocols, and a call that
\* returns a frame went through exactly one, complete and in order.
C9_OneProtocolPerFrame ==
  /\ ~(GpuProtocol /\ DidReadback)
  /\ result = "frame" => (GpuProtocol /\ ~DidReadback) \/ (CpuProtocol /\ ~GpuProtocol)

C9_Witness ==
  /\ CallEnded /\ result = "frame" /\ CpuProtocol /\ calls = 2 /\ prev.result # "frame"

\* the stage an event belongs to
StageEvents == {"import", "downscale", "await:segment", "maskUpload", "blur", "draw", "present"}

StageOf(e) ==
  CASE e = "await:segment" -> "segment"
    [] e = "maskUpload" -> "maskReady"
    [] e = "draw" -> "composite"
    [] OTHER -> e

IsStageEvent(e) == e \in StageEvents

Stages(ev) ==
  LET sel == SelectSeq(ev, IsStageEvent)
  IN  [i \in 1..Len(sel) |-> StageOf(sel[i])]

\* C10: a call that returns a frame went through import, downscale, segment,
\* mask ready, blur, composite (only without directOutput), present, in this
\* order and each once, and the pipeline is idle again.
C10_StageOrder ==
  result = "frame" =>
    /\ pc = "idle"
    /\ Stages(events) =
         <<"import", "downscale", "segment", "maskReady", "blur">>
           \o (IF directOutput THEN <<>> ELSE <<"composite">>)
           \o <<"present">>

C10_Witness ==
  /\ CallEnded /\ result = "frame" /\ ~directOutput /\ calls = 2
  /\ Len(Stages(events)) = 7

\* the call got as far as the surface stage (the mask was uploaded)
ReachedSurfaceStage == CountOf(events, "maskUpload") > 0

\* C11: in every render() call whose frame dimensions differ from the
\* surface's configured dimensions the surface is reconfigured to the new
\* dimensions before the surface texture is acquired, so that a surface
\* texture handed to the blur or compositing pass was acquired in that call
\* from a surface configured for the frame's processing size.
C11_SurfaceConfiguredForFrame ==
  /\ (CallEnded /\ ReachedSurfaceStage /\ ~forced)
       => /\ configured = ProcessingSize(videoFrame)
          /\ CountOf(events, "getCurrentTexture") = 1
  /\ (Len(blurCalls) > 0 \/ Len(draws) > 0)
       => /\ configured = ProcessingSize(videoFrame)
          /\ canvasTexture = SurfaceTexture(callTag, ProcessingSize(videoFrame))

\* a texture request has been made (under the cache specification)
Requested == pc = "cache" /\ Len(events) = 1
RequestedKey == TextureCacheKey(events[1], dims0)
FoundOtherSize ==
  sourceTexture # NoTexture
    /\ (sourceTexture.width # dims0[1] \/ sourceTexture.height # dims0[2])

RECURSIVE InOrder(_, _)
InOrder(s, ev) ==
  IF s = <<>> THEN TRUE
  ELSE IF ev = <<>> THEN FALSE
  ELSE IF Head(s) = Head(ev) THEN InOrder(Tail(s), Tail(ev))
  ELSE InOrder(s, Tail(ev))

\* the events of a GPU-native frame after the downscale pass is recorded
GpuFrameEvents ==
  <<"getInputBuffer", "submit", "inputBuffer.destroy", "await:segmentGPUBuffer",
    "getOutputBuffer", "copyBufferToTexture", "outputBuffer.destroy">>

\* C13: on every GPU-native frame the downscale command buffer is submitted,
\* the input buffer obtained for the frame is released, the segmenter's
\* inference is awaited, its output buffer is retrieved, the buffer-to-mask
\* copy is submitted and the output buffer is released, in this order; the
\* input buffer of a frame is released in that frame and never cached.
C13_GpuFrameOrder ==
  /\ (CallEnded /\ useInterop /\ ~forced /\ videoFrame.size # NoSize)
       => InOrder(GpuFrameEvents, events)
  /\ (CallEnded /\ useInterop /\ videoFrame.size # NoSize)
       => CountOf(events, "inputBuffer.destroy") = CountOf(events, "getInputBuffer")
  /\ \A k \in DOMAIN resourceCache : resourceCache[k] # InputBuffer

\* C14: on the GPU-native path binding 2 of the downscale bind group is the
\* buffer obtained from the segmenter for the frame, neither a texture nor an
\* absent resource, and the bind group of every GPU-native frame is built.
C14_GpuBindingIsBuffer ==
  (useInterop /\ videoFrame.size # NoSize) =>
    /\ DownscaleOutputBinding(impl, [buffer |-> InputBuffer]) = InputBuffer
    /\ (CallEnded /\ ~forced) => ~bindFailed

\* the events of a CPU-path frame from the readback copy to the segmenter
CpuFrameEvents ==
  <<"copyTextureToBuffer", "submit", "await:mapAsync", "copyMapped", "unmap",
    "await:segment">>

CpuFrameEventSet == {CpuFrameEvents[k] : k \in 1..Len(CpuFrameEvents)}
IsCpuFrameEvent(e) == e \in CpuFrameEventSet

\* C15: on every CPU-path frame the texture-to-readback-buffer copy is
\* submitted, the map is awaited, the mapped bytes are copied into the CPU
\* pixel buffer, the buffer is unmapped and the segmenter is invoked, in this
\* order and each once; the readback buffer is unmapped while the segmenter
\* runs, and is neither mapped nor being mapped at any other point outside the
\* await of the map, in particular when a call has ended (also by a failure of
\* the segmenter) and when the next one starts.  (Of the events of the list, a
\* call that has ended has logged an initial part, followed at most by the
\* submit of the frame's own commands; a call about to invoke the segmenter
\* has logged all that come before the invocation.)
C15_CpuFrameOrder ==
  /\ (CallEnded \/ pc = "segment") =>
       LET logged == SelectSeq(events, IsCpuFrameEvent) IN
       \/ /\ Len(logged) <= Len(CpuFrameEvents)
          /\ logged = SubSeq(CpuFrameEvents, 1, Len(logged))
       \/ logged = Append(CpuFrameEvents, "submit")
  /\ pc = "segment" => Len(SelectSeq(events, IsCpuFrameEvent)) = Len(CpuFrameEvents) - 1
  /\ pc = "segment" => readbackState = "unmapped"
  /\ pc # "map" => readbackState \in {"none", "unmapped"}
  /\ pc = "map" => readbackState = "pending"

\* the segmenter was invoked after a readback and its call failed
C15_Witness ==
  /\ CallEnded
  /\ forced
  /\ InOrder(CpuFrameEvents, events)
  /\ events[Len(events)] = "await:segment"
  /\ result \in {"dropped", "rejected"}
  /\ readbackState = "unmapped"

\* the size the blur engine must be told for the frame of the call
ExpectedInputDimensions ==
  IF videoFrame.size = NoSize THEN <<DefaultWidth, DefaultHeight>> ELSE videoFrame.size

\* C16: in every render() call that yields an outgoing frame,
\* setInputDimensions is called before blur with the frame's display width
\* and height (1280 by 720 when the frame reports none), and blur is invoked
\* exactly once in the call, with kernel parameter 360.
C16_BlurOncePerFrame ==
  (CallEnded /\ result = "frame") =>
    /\ Len(blurCalls) = 1
    /\ blurCalls[1].inputDimensions = ExpectedInputDimensions
    /\ blurCalls[1].kernel = BlurKernel
    /\ CountOf(events, "setInputDimensions") = 1
    /\ CountOf(events, "blur") = 1
    /\ Before(events, "setInputDimensions", "blur")

\* a frame that reports no size was blurred at 1280 by 720 and returned
C16_Witness ==
  /\ CallEnded
  /\ result = "frame"
  /\ videoFrame.size = NoSize
  /\ Len(blurCalls) = 1
  /\ blurCalls[1].inputDimensions = <<DefaultWidth, DefaultHeight>>

\* C17: in every render() call the destination passed to the blur engine is
\* the surface texture acquired in that call when directOutput is true and the
\* cached intermediate output texture when it is false; the intermediate
\* output texture is passed to the blur engine, and a compositing pass that
\* binds it is run, only when directOutput is false.
C17_BlurDestination ==
  /\ \A i \in 1..Len(blurCalls) :
       LET d == blurCalls[i].destination IN
       IF directOutput
         THEN /\ d = SurfaceTexture(callTag, ProcessingSize(videoFrame))
              /\ d = canvasTexture
              /\ d # outputTexture
         ELSE /\ d.key[1] = "outputTexture"
              /\ d = outputTexture
              /\ d.key \in DOMAIN resourceCache
              /\ resourceCache[d.key] = d
  /\ (Len(draws) > 0 \/ pc = "composite") => ~directOutput

\* the second call of a direct-output pipeline blurred into the surface
\* texture it acquired itself
C17_Witness ==
  /\ directOutput
  /\ calls = 2
  /\ prev.result = "frame"
  /\ Len(blurCalls) = 1
  /\ blurCalls[1].destination = canvasTexture
  /\ canvasTexture.gen = callTag

\* C18: in every render() call that reaches the blur stage the intermediate
\* output texture obtained from the cache has the width and height of the
\* frame's processing resolution (the display size, or 1280 by 720 when the
\* frame reports none), on the first call and on a call whose frame size
\* differs from the previous frame's alike.
C18_OutputTextureAtProcessingSize ==
  (pc = "blur" \/ Len(blurCalls) > 0) =>
    /\ outputTexture # NoTexture
    /\ outputTexture.width = ExpectedInputDimensions[1]
    /\ outputTexture.height = ExpectedInputDimensions[2]

\* a call whose frame size differs from the previous frame's reached the blur
C18_Witness ==
  /\ Len(blurCalls) = 1
  /\ prev.valid
  /\ prev.size # NoSize
  /\ videoFrame.size # NoSize
  /\ prev.size # videoFrame.size
  /\ <<outputTexture.width, outputTexture.height>> = videoFrame.size

\* the events that stand for a fetch of shader source text
FetchEvents == {"fetch:render.fragment"}

\* C19: shader source text is fetched only while the pipeline is constructed:
\* no render() call, the first call at a new output resolution included,
\* fetches shader source.
C19_NoFetchInRender ==
  \A i \in 1..Len(events) : events[i] \notin FetchEvents

\* the mask textures the cache holds that destroy() was not called on
LiveMaskTextures ==
  {k \in DOMAIN resourceCache : k[1] = "maskTexture" /\ resourceCache[k] \notin destroyed}

\* C20: at every point of a run of frames that are all returned the pipeline
\* holds at most one live mask texture: when the segmenter reports a mask size
\* different from the previous frame's, the earlier mask texture does not stay
\* allocated next to the new one.
C20_OneLiveMask ==
  (faults = 0 /\ videoFrame.size # NoSize /\ (prev.valid => prev.result = "frame"))
    => Cardinality(LiveMaskTextures) <= 1

\* the encoding the downscale shader of the pipeline writes: the class source
\* loads the rgb16float or the rgba8uint shader; the inline shader of the
\* closure source writes an 8-bit RGBA storage texture
EncodingInUse == IF packShader = "rgb16float" THEN "rgb16float" ELSE "rgba8uint"

\* the call has made its capability check and recorded a downscale pass
DownscaleRecorded == CountOf(events, "downscale") > 0

\* C21: on every frame the downscale encoding in use agrees with the path the
\* frame's capability check chose: the 16-bit half-float 3-channel encoding
\* exactly when the check selects the GPU-native path, the 8-bit RGBA encoding
\* otherwise, also when the flags differ from those at construction.
C21_EncodingMatchesPath ==
  DownscaleRecorded => (EncodingInUse = "rgb16float" <=> useInterop)

\* call c may be started next: it is the first call not started yet
NextToStart(c) ==
  flight[c].pc = "idle" /\ \A d \in Callers : d < c => flight[d].pc # "idle"

\* C22: render() has no internal serialization: a call can be started
\* whatever the calls in flight are suspended at.  What overlapping calls then
\* share: a map request fails only because the buffer is being mapped for
\* another call; only the class source, which has one CPU pixel buffer,
\* overwrites pixels a running segmenter was given; the closure source, which
\* uploads the mask and submits the blur without a break, never blurs with
\* another call's mask.
C22_NoSerialization ==
  /\ \A c \in Callers : NextToStart(c) => ENABLED StartRender(c)
  /\ \A c \in Callers : flight[c].pc = "failed" => "mapWhilePending" \in hazards
  /\ "pixelsOverwritten" \in hazards => impl = "class"
  /\ impl = "closure" => \A c \in Callers : flight[c].blurMask \in {0, c}
  /\ "foreignMask" \in hazards <=> \E c \in Callers : flight[c].blurMask \notin {0, c}

\* two overlapping calls used the same readback buffer, the same CPU pixel
\* buffer and the same mask texture, and the blur of one of them read the mask
\* written for the other
C22_Witness ==
  \E c, d \in Callers :
    /\ c # d
    /\ flight[c].readback # 0
    /\ flight[c].readback = flight[d].readback
    /\ flight[c].pixels = flight[d].pixels
    /\ flight[c].mask # NoSize
    /\ flight[c].mask = flight[d].mask
    /\ flight[c].blurMask = d
    /\ c < d

\* the second call asked the shared readback buffer to map while the map of
\* the first was pending
C22_MapWhilePending ==
  /\ "mapWhilePending" \in hazards
  /\ \E c, d \in Callers :
       c # d /\ flight[d].pc = "failed" /\ flight[c].readback = flight[d].readback

\* C23: from a mouseenter on the settings form until the matching mouseleave
\* no auto-hide timer is pending, whatever mousemove, start click or playing
\* events occur in between: with the pointer over the form and no timer
\* pending, none of these events leaves a timer pending.
C23_NoTimerWhilePointerOver ==
  [][(pointerOver /\ timers = {} /\ (MouseMove \/ StartClick \/ Playing))
       => timers' = {}]_vars

\* a timer armed after the mouseenter has expired before the mouseleave: the
\* menu was hidden by the timer with the pointer over the form
C23_HiddenUnderPointer ==
  pointerOver /\ menuHidden /\ floatVisible /\ hideTimer # 0 /\ timers = {}

\* C24: after a stop click, a pause or an ended event, and until the next start
\* click or playing event, the menu is visible, the floating button is not
\* visible and no auto-hide timer is pending, whatever mouse, click or timer
\* events occur meanwhile.  (page.stopped is set by the three stopping handlers
\* and reset by the starting ones.)
C24_StoppedShowsMenu ==
  page.stopped => ~menuHidden /\ ~floatVisible /\ timers = {} /\ ~videoRunning

\* the video is stopped, the page has loaded and the pointer is over the form;
\* the start and stop buttons lie outside the form, so the stop click reached
\* the document's click handler as well
C24_Witness ==
  page.stopped /\ pointerOver /\ page.loaded /\ ~page.buttonsInForm /\ ~videoRunning

\* C25: if the menu and the floating button are not both shown at the start, no
\* sequence of events reaches a state where the menu is visible and the
\* floating button is visible.
C25_NeverBothShown ==
  ~page.togetherAtStart => ~(~menuHidden /\ floatVisible)

\* the floating button is shown, the menu hidden, after a timer has expired
C25_Witness ==
  ~page.togetherAtStart /\ floatVisible /\ menuHidden /\ videoRunning
    /\ hideTimer # 0 /\ timers = {}

====
